---- MODULE Spec2Model ----
(***************************************************************************)
(* Induction planning engine of the train induction server                 *)
(* (neckHurts-main): the rule-based optimizer, the alert generator, the    *)
(* what-if simulation and the plan service of routes/induction (the        *)
(* generate and simulate handlers, the latest and history queries) over    *)
(* the InductionPlan and Train collections.                                *)
(*                                                                         *)
(* Five specifications share the variables:                                *)
(*   SpecOpt   the local optimizer, applied to every fleet of a bounded    *)
(*             set;                                                        *)
(*   SpecSim   the local simulation, applied likewise;                     *)
(*   Spec      the plan service, requests interleaved at their awaits;     *)
(*   SpecRead  the read handlers and the train deletion over stored plans; *)
(*   SpecStore every operation on trains and plans over a stored plan.     *)
(***************************************************************************)
EXTENDS Integers, Sequences, FiniteSets, TLC

VARIABLES
    trains,   \* the Train collection, in natural (insertion) order
    plans,    \* the InductionPlan collection, in insertion order
    clock,    \* milliseconds elapsed since Epoch (Date.now() = Epoch + clock)
    reqs,     \* the requests: position (pc), arguments, locals, response
    opt       \* SpecOpt only: the optimizer's input and its output

vars == <<trains, plans, clock, reqs, opt>>

----------------------------------------------------------------------------
(* Bounds *)

MaxFleet == 3      \* trains in a fleet handed to the pure functions
MaxReq == 2        \* requests served in one behaviour
MaxClock == 1      \* clock ticks in one behaviour

----------------------------------------------------------------------------
(* Values *)

MsPerDay == 86400000

\* Date.now() when the server starts; only differences to it matter.
Epoch == 2 * MsPerDay

\* trainsetId "TS-nn": the tuple orders as the string does.
Code(n) == <<"TS", n>>

\* the store's opaque _id of the n-th inserted train, as its string form
ObjectId(n) == <<"oid", n>>

\* the schema fields of a Train document the engine reads
Profile(valid, expiry, status, avail, mileage, hasB, prio, cleaning) ==
    [ fitnessStatus         |-> [isValid |-> valid, expiryDate |-> expiry],
      maintenanceStatus     |-> status,
      isAvailableForService |-> avail,
      currentMileage        |-> mileage,
      branding              |-> [hasBranding |-> hasB, brandingPriority |-> prio],
      cleaningStatus        |-> cleaning ]

\* Train documents the schema admits; the first three are the optimal fleet.
\* The certificates expire 20, 20, 20, 4, -1, 3, 7 and 8 whole days from
\* Epoch (the sixth a millisecond short of 4 days).
Profiles ==
    << Profile(TRUE,  Epoch + 20 * MsPerDay, "OPERATIONAL",     TRUE,  5000,  TRUE,  3, "CLEAN"),
       Profile(TRUE,  Epoch + 20 * MsPerDay, "OPERATIONAL",     TRUE,  5200,  FALSE, 1, "CLEAN"),
       Profile(TRUE,  Epoch + 20 * MsPerDay, "OPERATIONAL",     TRUE,  4800,  TRUE,  5, "CLEAN"),
       Profile(FALSE, Epoch + 4 * MsPerDay,  "OPERATIONAL",     TRUE,  5000,  TRUE,  3, "CLEAN"),
       Profile(TRUE,  Epoch - MsPerDay,      "OPERATIONAL",     TRUE,  5000,  FALSE, 1, "CLEAN"),
       Profile(TRUE,  Epoch + 4 * MsPerDay - 1, "MAINTENANCE_DUE", TRUE, 5000, FALSE, 1, "CLEANING_DUE"),
       Profile(TRUE,  Epoch + 7 * MsPerDay,  "OPERATIONAL",     FALSE, 5000,  FALSE, 1, "CLEAN"),
       Profile(TRUE,  Epoch + 8 * MsPerDay,  "OPERATIONAL",     TRUE,  30000, FALSE, 1, "CLEANING_DUE") >>

\* the Train document with code TS-n and the fields of profile p
MkTrain(n, p) == [_id |-> ObjectId(n), trainsetId |-> Code(n)] @@ p

Range(s) == {s[i] : i \in 1..Len(s)}

\* sequences of 0..k distinct elements of the set S, in every order
RECURSIVE SeqsNoDup(_, _)
SeqsNoDup(S, k) ==
    IF k = 0 THEN {<<>>}
    ELSE {<<>>} \cup
         UNION {{<<x>> \o s : s \in SeqsNoDup(S \ {x}, k - 1)} : x \in S}

Abs(x) == IF x < 0 THEN 0 - x ELSE x
Max(a, b) == IF a > b THEN a ELSE b
Min(a, b) == IF a < b THEN a ELSE b

\* Array.prototype.sort with a comparator (a, b) => b.key - a.key, on a
\* sequence of <<key, item>> pairs: descending by key, and stable (equal
\* keys keep their input order).
RECURSIVE InsertDesc(_, _)
InsertDesc(x, s) ==
    IF s = <<>> THEN <<x>>
    ELSE IF Head(s)[1] >= x[1]
         THEN <<Head(s)>> \o InsertDesc(x, Tail(s))
         ELSE <<x>> \o s

RECURSIVE SortDesc(_)
SortDesc(s) ==
    IF s = <<>> THEN <<>>
    ELSE InsertDesc(s[Len(s)], SortDesc(SubSeq(s, 1, Len(s) - 1)))

\* a fleet: the documents with the codes cs, in that order, the i-th with
\* the profile ps[i]
Fleet(cs, ps) == [i \in 1..Len(cs) |-> MkTrain(cs[i], Profiles[ps[i]])]

\* the orders in which up to MaxFleet distinct codes can be stored
CodeOrders == SeqsNoDup(1..MaxFleet, MaxFleet)

\* req.body.constraints: absent (the default {}) or some caller weights
ConstraintsArgs == {"{}", "weights"}

NoOpt == [kind |-> "none"]

NoReqs == [r \in 1..MaxReq |-> [kind |-> "idle", pc |-> "idle"]]

----------------------------------------------------------------------------
(* Pure functions of routes/induction *)

\* x?.f || dflt on a record that may lack the field
Get(r, f, dflt) == IF f \in DOMAIN r THEN r[f] ELSE dflt

\* train.fitnessStatus?.isValid, as a truth value
IsValid(t) ==
    /\ "fitnessStatus" \in DOMAIN t
    /\ Get(t.fitnessStatus, "isValid", FALSE)

\* train.branding?.hasBranding, as a truth value
HasBranding(t) ==
    /\ "branding" \in DOMAIN t
    /\ Get(t.branding, "hasBranding", FALSE)

\* formatTrainsForAI: computed defaults first, the raw document spread last,
\* so a field of the document overrides the default of the same name.
formatTrain(t) ==
    t @@ [ maintenanceDue   |-> FALSE,
           performanceScore |-> 0,
           reliabilityScore |-> 0 ]

formatTrainsForAI(ts) == [i \in 1..Len(ts) |-> formatTrain(ts[i])]

\* the filter "service-ready" of fallbackOptimization
serviceReady(t) ==
    /\ IsValid(t)
    /\ t.maintenanceStatus = "OPERATIONAL"
    /\ t.isAvailableForService # FALSE

RECURSIVE SumMileage(_)
SumMileage(ts) ==
    IF ts = <<>> THEN 0 ELSE Head(ts).currentMileage + SumMileage(Tail(ts))

\* The score of a train is a rational; ScoreDen(ts) is the denominator all
\* terms share (1000 for the mileage term, times the fleet size for the
\* average) and ScoreNum(t, ts) the numerator.
ScoreDen(ts) == 1000 * Len(ts)

ScoreNum(t, ts) ==
    LET n    == Len(ts)
        D    == ScoreDen(ts)
        diff == Abs(t.currentMileage * n - SumMileage(ts))  \* |m - avg| * n
        prio == IF Get(t.branding, "brandingPriority", 0) = 0
                THEN 1 ELSE t.branding.brandingPriority
    IN    (IF IsValid(t) THEN 30 * D ELSE 0)
        + (IF t.maintenanceStatus = "OPERATIONAL" THEN 25 * D ELSE 0)
        + (IF ~t.maintenanceDue THEN 10 * D ELSE 0)
        + Max(0, 15 * D - diff)
        + (IF HasBranding(t) THEN prio * 2 * D ELSE 0)
        + (t.performanceScore + t.reliabilityScore) * 100 * n
        + (IF t.cleaningStatus = "CLEAN" THEN 5 * D ELSE 0)

\* Math.round(num / den) for num >= 0: halves round up
Round(num, den) == (2 * num + den) \div (2 * den)

\* generateReasoning(train, score): the phrases, in order; score is the
\* unrounded score, kept as numerator and denominator.
generateReasoning(t, num, den) ==
      (IF IsValid(t)
       THEN << <<"Valid fitness certificate until",
                 IF "expiryDate" \in DOMAIN t.fitnessStatus
                 THEN <<"day", t.fitnessStatus.expiryDate \div MsPerDay>>
                 ELSE <<"Unknown", 0>> >> >>
       ELSE <<>>)
   \o (IF t.maintenanceStatus = "OPERATIONAL"
       THEN << <<"Maintenance status: Operational", <<>> >> >> ELSE <<>>)
   \o (IF t.currentMileage # 0
       THEN << <<"Current mileage km", <<t.currentMileage>> >> >> ELSE <<>>)
   \o (IF HasBranding(t)
       THEN << <<"Branding priority of 5",
                 <<Get(t.branding, "brandingPriority", 0)>> >> >> ELSE <<>>)
   \o (IF t.performanceScore # 0
       THEN << <<"Performance score of 100", <<t.performanceScore>> >> >> ELSE <<>>)
   \o << <<"Overall optimization score", <<num, den>> >> >>

\* one element of scoredTrains
scoreTrain(t, ts) ==
    [ train     |-> t._id,
      score     |-> Round(ScoreNum(t, ts), ScoreDen(ts)),
      reasoning |-> generateReasoning(t, ScoreNum(t, ts), ScoreDen(ts)) ]
\* a ranking numbered from zero
rankedEntryZeroBased(item, index) ==
    [ train           |-> item.train,
      rank            |-> index,
      reasoning       |-> item.reasoning,
      confidenceScore |-> Min(100, Max(60, item.score)),
      constraints     |-> [ fitnessValid     |-> TRUE,
                            maintenanceReady |-> TRUE,
                            cleaningStatus   |-> "CLEAN" ] ]

\* the .map((item, index) => ...) that follows the sort; index is 0-based
rankedEntry(item, index) ==
    [ train           |-> item.train,
      rank            |-> index + 1,
      reasoning       |-> item.reasoning,
      confidenceScore |-> Min(100, Max(60, item.score)),
      constraints     |-> [ fitnessValid     |-> TRUE,
                            maintenanceReady |-> TRUE,
                            cleaningStatus   |-> "CLEAN" ] ]

\* a ranking that keeps the order of the input
keepInputOrder(scored) == scored

\* scoredTrains.sort((a, b) => b.score - a.score)
sortByScore(scored) ==
    LET keyed == [i \in 1..Len(scored) |-> <<scored[i].score, scored[i]>>]
        out   == SortDesc(keyed)
    IN  [i \in 1..Len(out) |-> out[i][2]]

RECURSIVE SumConfidence(_)
SumConfidence(rs) ==
    IF rs = <<>> THEN 0 ELSE Head(rs).confidenceScore + SumConfidence(Tail(rs))

\* a quotient num / den kept unevaluated; 0 / 0 is JavaScript's NaN
Quot(num, den) == <<num, den>>
NaN == Quot(0, 0)

\* fitness bands that end a day early
fitnessAlertsDayEarly(t, now) ==
    IF "fitnessStatus" \in DOMAIN t /\ "expiryDate" \in DOMAIN t.fitnessStatus
    THEN LET daysUntilExpiry == (t.fitnessStatus.expiryDate - now) \div MsPerDay
         IN  IF daysUntilExpiry < 3 /\ daysUntilExpiry >= 0
             THEN << [ type     |-> "CRITICAL",
                       message  |-> <<t.trainsetId, "fitness certificate expires in days", daysUntilExpiry>>,
                       trainId  |-> t.trainsetId,
                       severity |-> 5 ] >>
             ELSE IF daysUntilExpiry < 7 /\ daysUntilExpiry >= 3
             THEN << [ type     |-> "WARNING",
                       message  |-> <<t.trainsetId, "fitness certificate expires in days", daysUntilExpiry>>,
                       trainId  |-> t.trainsetId,
                       severity |-> 3 ] >>
             ELSE IF daysUntilExpiry < 0
             THEN << [ type     |-> "CRITICAL",
                       message  |-> <<t.trainsetId, "fitness certificate has expired", 0>>,
                       trainId  |-> t.trainsetId,
                       severity |-> 5 ] >>
             ELSE <<>>
    ELSE <<>>

\* the fitness expiry alert of one train, if any
fitnessAlerts(t, now) ==
    IF "fitnessStatus" \in DOMAIN t /\ "expiryDate" \in DOMAIN t.fitnessStatus
    THEN LET daysUntilExpiry == (t.fitnessStatus.expiryDate - now) \div MsPerDay
         IN  IF daysUntilExpiry <= 3 /\ daysUntilExpiry >= 0
             THEN << [ type     |-> "CRITICAL",
                       message  |-> <<t.trainsetId, "fitness certificate expires in days", daysUntilExpiry>>,
                       trainId  |-> t.trainsetId,
                       severity |-> 5 ] >>
             ELSE IF daysUntilExpiry <= 7 /\ daysUntilExpiry > 3
             THEN << [ type     |-> "WARNING",
                       message  |-> <<t.trainsetId, "fitness certificate expires in days", daysUntilExpiry>>,
                       trainId  |-> t.trainsetId,
                       severity |-> 3 ] >>
             ELSE IF daysUntilExpiry < 0
             THEN << [ type     |-> "CRITICAL",
                       message  |-> <<t.trainsetId, "fitness certificate has expired", 0>>,
                       trainId  |-> t.trainsetId,
                       severity |-> 5 ] >>
             ELSE <<>>
    ELSE <<>>

\* the alerts of one train, in the order they are pushed
trainAlerts(t, now) ==
       fitnessAlerts(t, now)
    \o (IF t.maintenanceDue
        THEN << [ type     |-> "WARNING",
                  message  |-> <<t.trainsetId, "maintenance is due", 0>>,
                  trainId  |-> t.trainsetId,
                  severity |-> 4 ] >>
        ELSE <<>>)
    \o (IF t.isAvailableForService = FALSE
        THEN << [ type     |-> "INFO",
                  message  |-> <<t.trainsetId, "is not available for service", 0>>,
                  trainId  |-> t.trainsetId,
                  severity |-> 2 ] >>
        ELSE <<>>)

RECURSIVE pushAlerts(_, _)
pushAlerts(ts, now) ==
    IF ts = <<>> THEN <<>>
    ELSE trainAlerts(Head(ts), now) \o pushAlerts(Tail(ts), now)

\* a sort by severity that emits equal severities in reverse order
generateAlertsUnstable(ts, now) ==
    LET pushed == pushAlerts(ts, now)
        n      == Len(pushed)
        keyed  == [i \in 1..n |-> <<pushed[n + 1 - i].severity, pushed[n + 1 - i]>>]
        out    == SortDesc(keyed)
    IN  [i \in 1..Len(out) |-> out[i][2]]

\* generateAlerts(trains), with Date.now() = now
generateAlerts(ts, now) ==
    LET pushed == pushAlerts(ts, now)
        keyed  == [i \in 1..Len(pushed) |-> <<pushed[i].severity, pushed[i]>>]
        out    == SortDesc(keyed)
    IN  [i \in 1..Len(out) |-> out[i][2]]

\* fallbackOptimization(trains, constraints); now is Date.now() during the
\* call, which is synchronous: the clock does not advance within it
fallbackOptimization(ts, constraints, now) ==
    LET startTime == now
        serviceReadyTrains == SelectSeq(ts, serviceReady)
        scoredTrains ==
            [i \in 1..Len(serviceReadyTrains) |-> scoreTrain(serviceReadyTrains[i], ts)]
        sorted == sortByScore(scoredTrains)
        rankedTrains == [i \in 1..Len(sorted) |-> rankedEntry(sorted[i], i - 1)]
    IN  [ rankedTrains |-> rankedTrains,
          alerts       |-> generateAlerts(ts, now),
          metrics      |-> [ totalTrainsEvaluated |-> Len(ts),
                             constraintsSatisfied |-> Len(rankedTrains),
                             averageConfidence    |->
                                 Quot(SumConfidence(rankedTrains), Len(rankedTrains)),
                             processingTimeMs     |-> now - startTime ],
          modelInfo    |-> [ version    |-> "1.0-fallback",
                             algorithm  |-> "Rule-Based Weighted Scoring (Fallback)",
                             parameters |-> constraints ] ]

\* the modifiedTrains of fallbackSimulation: the target train, found by
\* trainset code or by _id, becomes { ...train, ...modifications }, a spread
\* of the top-level fields
applyModifications(ts, trainId, modifications) ==
    [i \in 1..Len(ts) |->
        IF ts[i].trainsetId = trainId \/ ts[i]._id = trainId
        THEN modifications @@ ts[i]
        ELSE ts[i]]

\* fallbackSimulation(trains, trainId, modifications, constraints)
fallbackSimulation(ts, trainId, modifications, constraints, now) ==
    LET modifiedTrains == applyModifications(ts, trainId, modifications)
        result == fallbackOptimization(modifiedTrains, constraints, now)
        hits   == {i \in 1..Len(result.rankedTrains) :
                      result.rankedTrains[i].train = trainId}
        found  == hits # {}
        modifiedTrainRank ==
            IF found
            THEN result.rankedTrains[CHOOSE i \in hits : \A j \in hits : i <= j].rank
            ELSE 0
    IN  result @@
        [ simulationParams |-> [ modifiedTrain |-> trainId,
                                 modifications |-> modifications ],
          impactAnalysis   |->
              [ newRank        |-> IF found THEN <<modifiedTrainRank>> ELSE <<>>,
                rankChange     |-> IF found /\ modifiedTrainRank # 0
                                   THEN <<"Moved to rank", modifiedTrainRank>>
                                   ELSE <<"Not in top rankings", 0>>,
                affectedTrains |-> Len(result.rankedTrains) ] ]

----------------------------------------------------------------------------
(* The external AI service, as the adapter sees it *)

\* how axios.post(AI_SERVICE_URL ...) ends: a response with a body, a
\* response whose data is empty (falsy), ECONNREFUSED, or the 60 s timeout
ExternalOutcomes == {"body", "malformed", "empty", "refused", "timeout"}

\* a well-formed body of POST /optimize: the service ranks every train it
\* was sent, in the order sent
externalRanking(ts) ==
    [i \in 1..Len(ts) |->
        [ train           |-> ts[i]._id,
          rank            |-> i,
          reasoning       |-> << <<"AI selection", <<i>> >> >>,
          confidenceScore |-> 90,
          constraints     |-> [ fitnessValid     |-> IsValid(ts[i]),
                                maintenanceReady |-> ts[i].maintenanceStatus = "OPERATIONAL",
                                cleaningStatus   |-> ts[i].cleaningStatus ] ]]

externalBody(ts, constraints) ==
    [ rankedTrains |-> externalRanking(ts),
      alerts       |-> <<>>,
      metrics      |-> [ totalTrainsEvaluated |-> Len(ts),
                         constraintsSatisfied |-> Len(ts),
                         averageConfidence    |-> Quot(90 * Len(ts), Len(ts)),
                         processingTimeMs     |-> 1 ],
      modelInfo    |-> [ version    |-> "2.0",
                         algorithm  |-> "Multi-Objective Optimization",
                         parameters |-> constraints ] ]

\* response.data.x || dflt for each field, on a body that carries none of
\* the fields (an object of another shape, an error page)
malformedMapped ==
    [ rankedTrains |-> <<>>,
      alerts       |-> <<>>,
      metrics      |-> [a \in {} |-> 0],          \* {}
      modelInfo    |-> [version |-> "unknown"] ]

\* callAIOptimizer(trains, constraints): the value it returns, or
\* [threw |-> TRUE] when it throws "AI optimization failed"
callAIOptimizer(outcome, ts, constraints, now) ==
    CASE outcome = "body"      -> externalBody(ts, constraints)
      [] outcome = "malformed" -> malformedMapped
      [] outcome = "refused"   -> fallbackOptimization(ts, constraints, now)
      [] OTHER                 -> [threw |-> TRUE]

\* callAISimulator(trains, trainId, modifications, constraints)
callAISimulator(outcome, ts, trainId, modifications, constraints, now) ==
    CASE outcome = "body" ->
            externalBody(ts, constraints) @@
            [ simulationParams |-> [ modifiedTrain |-> trainId,
                                     modifications |-> modifications ],
              impactAnalysis   |-> [ newRank        |-> <<1>>,
                                     rankChange     |-> <<"Moved to rank", 1>>,
                                     affectedTrains |-> Len(ts) ] ]
      [] outcome = "malformed" ->
            malformedMapped @@
            [ simulationParams |-> [a \in {} |-> 0], impactAnalysis |-> [a \in {} |-> 0] ]
      [] outcome = "refused" ->
            fallbackSimulation(ts, trainId, modifications, constraints, now)
      [] OTHER -> [threw |-> TRUE]

----------------------------------------------------------------------------
(* The InductionPlan collection *)

\* new InductionPlan({...}): the document, with the schema's defaults for
\* the fields the optimizer result lacks
newPlan(id, planDate, ai, user, now) ==
    [ id           |-> id,
      planDate     |-> planDate,
      generatedAt  |-> now,
      rankedTrains |-> ai.rankedTrains,
      alerts       |-> ai.alerts,
      optimizationMetrics |->
          [ totalTrainsEvaluated |-> Get(ai.metrics, "totalTrainsEvaluated", 0),
            constraintsSatisfied |-> Get(ai.metrics, "constraintsSatisfied", 0),
            averageConfidence    |-> Get(ai.metrics, "averageConfidence", Quot(0, 1)),
            processingTimeMs     |-> Get(ai.metrics, "processingTimeMs", 0) ],
      generatedBy  |-> user,
      aiModelInfo  |->
          [ version    |-> Get(ai.modelInfo, "version", "1.0"),
            algorithm  |-> Get(ai.modelInfo, "algorithm", "Multi-Objective Optimization"),
            parameters |-> Get(ai.modelInfo, "parameters", "{}") ],
      status       |-> "FINALIZED" ]

\* the schema's validation on save: Number paths hold numbers (NaN fails the
\* cast), rank >= 1, confidenceScore in 0..100, severity in 1..5
validPlan(p) ==
    /\ p.optimizationMetrics.averageConfidence # NaN
    /\ \A i \in 1..Len(p.rankedTrains) :
          /\ p.rankedTrains[i].rank >= 1
          /\ p.rankedTrains[i].confidenceScore \in 0..100
    /\ \A i \in 1..Len(p.alerts) :
          /\ p.alerts[i].severity \in 1..5
          /\ p.alerts[i].type \in {"WARNING", "CRITICAL", "INFO"}
\* a store without the unique index
noUniqueIndex(ps, planDate) == TRUE

\* the unique index on planDate: no stored plan has this planDate
uniquePlanDate(ps, planDate) ==
    \A i \in 1..Len(ps) : ps[i].planDate # planDate
\* a lookup that asks for another status
finalizedOnDraft(ps, planDate) ==
    SelectSeq(ps, LAMBDA p : p.planDate = planDate /\ p.status = "DRAFT")

\* InductionPlan.findOne({ planDate, status: 'FINALIZED' }): the matching
\* documents (the store returns the first in natural order)
finalizedOn(ps, planDate) ==
    SelectSeq(ps, LAMBDA p : p.planDate = planDate /\ p.status = "FINALIZED")

\* find({ status: 'FINALIZED' }).sort({ planDate: -1 }): equal planDates
\* cannot occur under the unique index, so the order is determined
finalizedNewestFirst(ps) ==
    LET fin   == SelectSeq(ps, LAMBDA p : p.status = "FINALIZED")
        keyed == [i \in 1..Len(fin) |-> <<fin[i].planDate, fin[i]>>]
        out   == SortDesc(keyed)
    IN  [i \in 1..Len(out) |-> out[i][2]]

\* InductionPlan.getLatest(): the plan, or <<>> for null
getLatest(ps) ==
    IF finalizedNewestFirst(ps) = <<>> THEN <<>> ELSE <<Head(finalizedNewestFirst(ps))>>

\* InductionPlan.getHistory(limit)
getHistory(ps, limit) ==
    SubSeq(finalizedNewestFirst(ps), 1, Min(limit, Len(finalizedNewestFirst(ps))))

\* the fields of record r named in F (a select projection; _id is kept)
Pick(r, F) == [f \in (F \cup {"_id"}) \cap DOMAIN r |-> r[f]]

\* populate of one rankedTrains.train reference against the Train
\* collection ts: the selected fields of the train, or <<>> (null) when no
\* train has that _id
populateTrain(ts, id, F) ==
    IF \E i \in 1..Len(ts) : ts[i]._id = id
    THEN <<Pick(ts[CHOOSE i \in 1..Len(ts) : ts[i]._id = id], F)>>
    ELSE <<>>

\* .populate({ path: 'rankedTrains.train', select }) on one plan
populate(p, ts, F) ==
    [p EXCEPT !.rankedTrains =
        [i \in 1..Len(p.rankedTrains) |->
            [p.rankedTrains[i] EXCEPT !.train = populateTrain(ts, p.rankedTrains[i].train, F)]]]

\* the paths of a Train document
TrainPaths ==
    { "trainsetId", "fitnessStatus", "maintenanceStatus", "isAvailableForService",
      "currentMileage", "branding", "cleaningStatus" }

\* the select of getLatest's populate
LatestSelect ==
    { "trainsetId", "model", "manufacturer", "fitnessStatus", "maintenanceStatus",
      "cleaningStatus", "branding", "currentMileage" }

\* the select of getHistory on the plan, with optimizationMetrics cut to
\* averageConfidence, and its populate with select 'trainsetId'
historyView(p, ts) ==
    [ Pick(populate(p, ts, {"trainsetId"}),
           {"id", "planDate", "generatedAt", "optimizationMetrics", "alerts",
            "status", "rankedTrains"}) EXCEPT
        !.optimizationMetrics = Pick(p.optimizationMetrics, {"averageConfidence"}) ]

\* the number of entries GET /latest asks getTopTrains for
TopN == 5

\* a getTopTrains that sorts and does not slice
getTopTrainsAll(p, n) ==
    LET keyed == [i \in 1..Len(p.rankedTrains) |->
                     <<0 - p.rankedTrains[i].rank, p.rankedTrains[i]>>]
        out   == SortDesc(keyed)
    IN  [i \in 1..Len(out) |-> out[i][2]]

\* plan.getTopTrains(n): sort by rank ascending, slice(0, n)
getTopTrains(p, n) ==
    LET keyed == [i \in 1..Len(p.rankedTrains) |->
                     <<0 - p.rankedTrains[i].rank, p.rankedTrains[i]>>]
        out   == SortDesc(keyed)
    IN  [i \in 1..Min(n, Len(out)) |-> out[i][2]]

\* plan.getCriticalAlerts()
getCriticalAlerts(p) == SelectSeq(p.alerts, LAMBDA a : a.type = "CRITICAL")

\* the summary virtual
summary(p) ==
    [ totalTrains       |-> Len(p.rankedTrains),
      criticalAlerts    |-> Len(getCriticalAlerts(p)),
      averageConfidence |-> p.optimizationMetrics.averageConfidence,
      status            |-> p.status ]

\* InductionPlan.findById(planId): <<plan>> or <<>>
findById(ps, planId) == SelectSeq(ps, LAMBDA p : p.id = planId)

\* optional chaining on a populated train: <<value>>, or <<>> for undefined
Chain(train, f) ==
    IF train # <<>> /\ f \in DOMAIN train[1] THEN <<train[1][f]>> ELSE <<>>

\* a detailedAnalysis that is null for an entry whose train is gone
analysisOrNull(train) ==
    IF train = <<>> THEN <<>>
    ELSE << [ fitnessStatus      |-> IF IsValid(train[1]) THEN "Valid" ELSE "Invalid",
              maintenanceUrgency |-> Chain(train, "maintenanceUrgency"),
              mileageBalance     |-> Chain(train, "currentMileage"),
              brandingPriority   |-> <<train[1].branding.brandingPriority>>,
              locationAdvantage  |-> Chain(train, "currentLocation") ] >>

\* the detailedAnalysis GET /explain builds from a populated train
\* reference: <<object>> (<<>> would be null)
analysis(train) ==
    << [ fitnessStatus      |-> IF Chain(train, "fitnessStatus") # <<>>
                                   /\ IsValid(train[1])
                                THEN "Valid" ELSE "Invalid",
         maintenanceUrgency |-> Chain(train, "maintenanceUrgency"),
         mileageBalance     |-> Chain(train, "currentMileage"),
         brandingPriority   |-> IF Chain(train, "branding") # <<>>
                                THEN <<train[1].branding.brandingPriority>>
                                ELSE <<>>,
         locationAdvantage  |-> Chain(train, "currentLocation") ] >>

\* one element of the explanations GET /explain builds from a populated
\* entry
explanation(entry) ==
    [ rank             |-> entry.rank,
      train            |-> entry.train,
      reasoning        |-> entry.reasoning,
      confidenceScore  |-> entry.confidenceScore,
      constraints      |-> entry.constraints,
      detailedAnalysis |-> analysis(entry.train) ]

----------------------------------------------------------------------------
(* Spec: the plan service *)

\* the caller: no valid credential, or a user of one of the roles
Roles == {"NONE", "READER", "SUPERVISOR", "ADMIN"}

\* a role check that lets every authenticated caller pass
AnyRole == {"READER", "SUPERVISOR", "ADMIN"}

\* requireSupervisor
SupervisorRoles == {"SUPERVISOR", "ADMIN"}

\* req.body.planDate values the callers send
PlanDates == {Epoch + MsPerDay, Epoch + 2 * MsPerDay}

\* req.body.planDate of POST /generate: absent (<<>>, the default is
\* new Date()) or a date
PlanDateArgs == {<<>>} \cup {<<d>> : d \in PlanDates}

\* the Train collections a behaviour may start from
ServiceFleets ==
    { <<>>,
      Fleet(<<1, 2, 3>>, <<1, 2, 3>>),
      Fleet(<<1, 2>>, <<4, 6>>) }

\* req.body.trainId: a trainset code, an _id string, or absent (<<>>)
TrainRefs == {Code(1), ObjectId(2), Code(9), <<>>}

\* req.body.modifications: an overlay of train fields, or absent (<<>>)
Modifications ==
    { [isAvailableForService |-> FALSE],
      [branding |-> [hasBranding |-> TRUE, brandingPriority |-> 5]],
      <<>> }

Init ==
    /\ trains \in ServiceFleets
    /\ plans = <<>>
    /\ clock = 0
    /\ reqs = NoReqs
    /\ opt = NoOpt

\* requests are numbered in the order they arrive
Arrives(r) ==
    /\ reqs[r].pc = "idle"
    /\ \A q \in 1..(r - 1) : reqs[q].pc # "idle"

Done(r, req, status, body) ==
    reqs' = [reqs EXCEPT ![r] = req @@ [pc |-> "done", status |-> status, body |-> body]]

\* a millisecond passes
Tick ==
    /\ clock < MaxClock
    /\ clock' = clock + 1
    /\ UNCHANGED <<trains, plans, reqs, opt>>

\* the request record without its position
Locals(req) == [f \in DOMAIN req \ {"pc"} |-> req[f]]

\* POST /generate up to its first await on the plan store: authenticateToken,
\* requireSupervisor, then findOne for the plan date
GenerateStart(r) ==
    /\ Arrives(r)
    /\ \E role \in Roles :
         IF role = "NONE" THEN Done(r, [kind |-> "generate", role |-> role], 401, <<>>)
         ELSE IF role \notin SupervisorRoles
         THEN Done(r, [kind |-> "generate", role |-> role], 403, <<>>)
         ELSE \E planDateArg \in PlanDateArgs, forceRegenerate \in BOOLEAN :
                LET planDate == IF planDateArg = <<>> THEN Epoch + clock
                                ELSE planDateArg[1]
                    existingPlan == finalizedOn(plans, planDate)
                    req == [ kind |-> "generate", role |-> role, planDate |-> planDate,
                             forceRegenerate |-> forceRegenerate,
                             existingPlan |-> IF existingPlan = <<>> THEN <<>>
                                              ELSE <<existingPlan[1].id>> ]
                IN  IF existingPlan # <<>> /\ ~forceRegenerate
                    THEN Done(r, req, 409, req.existingPlan)
                    ELSE reqs' = [reqs EXCEPT ![r] = req @@ [pc |-> "optimize"]]
    /\ UNCHANGED <<trains, plans, clock, opt>>

\* a handler that hands an empty fleet to the optimizer
GenerateOptimizeUnchecked(r) ==
    /\ reqs[r].kind = "generate" /\ reqs[r].pc = "optimize"
    /\ \E outcome \in ExternalOutcomes, c \in ConstraintsArgs :
          LET aiResult == callAIOptimizer(outcome, formatTrainsForAI(trains),
                                          c, Epoch + clock)
              req == Locals(reqs[r]) @@
                     [ loaded |-> trains, constraints |-> c, external |-> outcome ]
          IN  IF "threw" \in DOMAIN aiResult
              THEN Done(r, req, 500, <<>>)
              ELSE reqs' = [reqs EXCEPT ![r] =
                               req @@ [pc |-> "save", aiResult |-> aiResult]]
    /\ UNCHANGED <<trains, plans, clock, opt>>

\* Train.find().lean(), the empty-fleet check, formatTrainsForAI and
\* callAIOptimizer (which reads no stored state)
GenerateOptimize(r) ==
    /\ reqs[r].kind = "generate" /\ reqs[r].pc = "optimize"
    /\ IF Len(trains) = 0
       THEN Done(r, Locals(reqs[r]), 400, <<>>)
       ELSE \E outcome \in ExternalOutcomes, c \in ConstraintsArgs :
              LET aiResult == callAIOptimizer(outcome, formatTrainsForAI(trains),
                                              c, Epoch + clock)
                  req == Locals(reqs[r]) @@
                         [ loaded |-> trains, constraints |-> c, external |-> outcome ]
              IN  IF "threw" \in DOMAIN aiResult
                  THEN Done(r, req, 500, <<>>)
                  ELSE reqs' = [reqs EXCEPT ![r] =
                                   req @@ [pc |-> "save", aiResult |-> aiResult]]
    /\ UNCHANGED <<trains, plans, clock, opt>>

\* new InductionPlan(...), plan.save(), plan.populate('rankedTrains.train')
\* and the response.  The populate is a query on the Train collection after
\* the plan is written; when the store fails it, the catch answers 500.
GenerateSave(r) ==
    /\ reqs[r].kind = "generate" /\ reqs[r].pc = "save"
    /\ LET plan == newPlan(Len(plans) + 1, reqs[r].planDate, reqs[r].aiResult,
                           reqs[r].role, Epoch + clock)
       IN  IF validPlan(plan) /\ uniquePlanDate(plans, plan.planDate)
           THEN /\ plans' = Append(plans, plan)
                /\ \E populated \in BOOLEAN :
                      LET req == Locals(reqs[r]) @@ [saved |-> <<plan.id>>]
                      IN  IF populated
                          THEN Done(r, req, 201, <<plan.id>>)
                          ELSE Done(r, req, 500, <<>>)
           ELSE /\ plans' = plans
                /\ Done(r, Locals(reqs[r]), 500, <<>>)
    /\ UNCHANGED <<trains, clock, opt>>

\* a handler that does not look the target train up before it simulates
SimulateResponseUnchecked(r) ==
    /\ Arrives(r)
    /\ \E role \in Roles :
         IF role = "NONE" THEN Done(r, [kind |-> "simulate", role |-> role], 401, <<>>)
         ELSE IF role \notin SupervisorRoles
         THEN Done(r, [kind |-> "simulate", role |-> role], 403, <<>>)
         ELSE \E trainId \in TrainRefs, modifications \in Modifications :
                LET req == [ kind |-> "simulate", role |-> role, trainId |-> trainId,
                             modifications |-> modifications ]
                IN  IF trainId = <<>> \/ modifications = <<>> THEN Done(r, req, 400, <<>>)
                    ELSE \E outcome \in ExternalOutcomes, c \in ConstraintsArgs :
                           LET aiResult ==
                                   callAISimulator(outcome, formatTrainsForAI(trains),
                                                   trainId, modifications, c, Epoch + clock)
                               called == req @@ [ loaded |-> trains, constraints |-> c,
                                                  external |-> outcome ]
                           IN  IF "threw" \in DOMAIN aiResult
                               THEN Done(r, called, 500, <<>>)
                               ELSE Done(r, called, 200,
                                         <<aiResult @@ [status |-> "SIMULATION"]>>)

\* POST /simulate, the request and its response: authentication, role,
\* argument check, Train.find().lean(), the lookup of the target train,
\* formatTrainsForAI, callAISimulator (which reads no stored state) and
\* res.json
SimulateResponse(r) ==
    /\ Arrives(r)
    /\ \E role \in Roles :
         IF role = "NONE" THEN Done(r, [kind |-> "simulate", role |-> role], 401, <<>>)
         ELSE IF role \notin SupervisorRoles
         THEN Done(r, [kind |-> "simulate", role |-> role], 403, <<>>)
         ELSE \E trainId \in TrainRefs, modifications \in Modifications :
                LET req == [ kind |-> "simulate", role |-> role, trainId |-> trainId,
                             modifications |-> modifications ]
                    targets == {i \in 1..Len(trains) :
                                   trains[i].trainsetId = trainId \/ trains[i]._id = trainId}
                IN  IF trainId = <<>> \/ modifications = <<>> THEN Done(r, req, 400, <<>>)
                    ELSE IF targets = {} THEN Done(r, req, 404, <<>>)
                    ELSE \E outcome \in ExternalOutcomes, c \in ConstraintsArgs :
                           LET aiResult ==
                                   callAISimulator(outcome, formatTrainsForAI(trains),
                                                   trainId, modifications, c, Epoch + clock)
                               called == req @@ [ loaded |-> trains, constraints |-> c,
                                                  external |-> outcome ]
                           IN  IF "threw" \in DOMAIN aiResult
                               THEN Done(r, called, 500, <<>>)
                               ELSE Done(r, called, 200,
                                         <<aiResult @@ [status |-> "SIMULATION"]>>)
\* a handler that saves the transient plan it returns
SimulateSaving(r) ==
    /\ SimulateResponse(r)
    /\ plans' = IF reqs'[r].status = 200
                THEN Append(plans, newPlan(Len(plans) + 1, Epoch + clock,
                                           reqs'[r].body[1], reqs'[r].role,
                                           Epoch + clock))
                ELSE plans
    /\ UNCHANGED <<trains, clock, opt>>

\* POST /simulate: the handler saves nothing
Simulate(r) ==
    /\ SimulateResponse(r)
    /\ UNCHANGED <<trains, plans, clock, opt>>

\* the limit GET /history applies when the query names none
DefaultLimit == 10

\* req.query.limit and req.query.page of GET /history: absent (<<>>) or a
\* number
LimitArgs == {<<>>, <<1>>}
PageArgs == {<<>>, <<2>>}

\* req.params.planId of GET /explain
PlanRefs == {1, 2, 9}

\* the answer of a read handler to a caller of this role: 401 from
\* authenticateToken without a valid credential, else the handler's answer
ReadDone(r, req, status, body) ==
    IF req.role = "NONE"
    THEN Done(r, [kind |-> req.kind, role |-> req.role], 401, <<>>)
    ELSE Done(r, req, status, body)

\* GET /latest
Latest(r) ==
    /\ Arrives(r)
    /\ \E role \in Roles :
         LET req  == [kind |-> "latest", role |-> role]
             plan == getLatest(plans)
         IN  IF plan = <<>>
             THEN ReadDone(r, req, 404, <<>>)
             ELSE LET p == populate(plan[1], trains, LatestSelect)
                  IN  ReadDone(r, req, 200,
                               <<[ plan           |-> p,
                                   summary        |-> summary(p),
                                   topTrains      |-> getTopTrains(p, TopN),
                                   criticalAlerts |-> getCriticalAlerts(p) ]>>)
    /\ UNCHANGED <<trains, plans, clock, opt>>

\* GET /history
History(r) ==
    /\ Arrives(r)
    /\ \E role \in Roles, limitArg \in LimitArgs, pageArg \in PageArgs :
         LET limit == IF limitArg = <<>> THEN DefaultLimit ELSE limitArg[1]
             page  == IF pageArg = <<>> THEN 1 ELSE pageArg[1]
             req   == [kind |-> "history", role |-> role, limit |-> limitArg,
                       page |-> pageArg]
             found == getHistory(plans, limit)
         IN  ReadDone(r, req, 200,
                      <<[ plans      |-> [i \in 1..Len(found) |->
                                             historyView(found[i], trains)],
                          pagination |-> [ page  |-> page,
                                           limit |-> limit,
                                           total |-> Len(found) ] ]>>)
    /\ UNCHANGED <<trains, plans, clock, opt>>

\* GET /explain/:planId
Explain(r) ==
    /\ Arrives(r)
    /\ \E role \in Roles, planId \in PlanRefs :
         LET req  == [kind |-> "explain", role |-> role, planId |-> planId]
             plan == findById(plans, planId)
         IN  IF plan = <<>>
             THEN ReadDone(r, req, 404, <<>>)
             ELSE LET p == populate(plan[1], trains, TrainPaths)
                  IN  ReadDone(r, req, 200,
                               <<[ plan |-> [ id          |-> p.id,
                                              planDate    |-> p.planDate,
                                              generatedAt |-> p.generatedAt,
                                              status      |-> p.status,
                                              generatedBy |-> p.generatedBy ],
                                   explanations |->
                                       [i \in 1..Len(p.rankedTrains) |->
                                           explanation(p.rankedTrains[i])],
                                   optimizationMetrics |-> p.optimizationMetrics,
                                   aiModelInfo |-> p.aiModelInfo,
                                   alerts      |-> p.alerts ]>>)
    /\ UNCHANGED <<trains, plans, clock, opt>>

\* req.params.trainId of DELETE /api/trains/:trainId
TrainCodes == {Code(1), Code(2), Code(9)}

\* req.body of POST /api/trains: the fields of the first profile with the
\* code of a stored train or a new one, or without a trainsetId (<<>>)
NewTrainCodes == {Code(2), Code(4), <<>>}

\* the _id the store gives the train that request r inserts
NewObjectId(r) == <<"oid", 100 + r>>

\* POST /api/trains: authenticateToken, requireSupervisor, the lookup of the
\* code, new Train(trainData).save()
AddTrain(r) ==
    /\ Arrives(r)
    /\ \E role \in Roles :
         IF role = "NONE"
         THEN /\ Done(r, [kind |-> "add", role |-> role], 401, <<>>)
              /\ trains' = trains
         ELSE IF role \notin SupervisorRoles
         THEN /\ Done(r, [kind |-> "add", role |-> role], 403, <<>>)
              /\ trains' = trains
         ELSE \E trainsetId \in NewTrainCodes :
                LET req == [kind |-> "add", role |-> role, trainId |-> trainsetId]
                IN  IF trainsetId = <<>>
                    THEN /\ trains' = trains
                         /\ Done(r, req, 400, <<>>)
                    ELSE IF \E i \in 1..Len(trains) : trains[i].trainsetId = trainsetId
                    THEN /\ trains' = trains
                         /\ Done(r, req, 409, <<>>)
                    ELSE /\ trains' = Append(trains,
                                 [_id |-> NewObjectId(r), trainsetId |-> trainsetId]
                                    @@ Profiles[1])
                         /\ Done(r, req, 201, <<trainsetId>>)
    /\ UNCHANGED <<plans, clock, opt>>

\* req.body of PUT /api/trains/:trainId
TrainUpdates ==
    { [currentMileage |-> 6000],
      [maintenanceStatus |-> "IN_MAINTENANCE", trainsetId |-> Code(9)] }

\* PUT /api/trains/:trainId: authenticateToken, requireSupervisor,
\* Train.findOne({ trainsetId }), the assignment of every key of the body
\* but trainsetId, train.save()
UpdateTrain(r) ==
    /\ Arrives(r)
    /\ \E role \in Roles :
         IF role = "NONE"
         THEN /\ Done(r, [kind |-> "update", role |-> role], 401, <<>>)
              /\ trains' = trains
         ELSE IF role \notin SupervisorRoles
         THEN /\ Done(r, [kind |-> "update", role |-> role], 403, <<>>)
              /\ trains' = trains
         ELSE \E trainId \in TrainCodes, body \in TrainUpdates :
                LET req  == [kind |-> "update", role |-> role, trainId |-> trainId]
                    keys == DOMAIN body \ {"trainsetId"}
                    new(t) == [f \in keys |-> body[f]] @@ t
                IN  IF \E i \in 1..Len(trains) : trains[i].trainsetId = trainId
                    THEN /\ trains' = [i \in 1..Len(trains) |->
                                          IF trains[i].trainsetId = trainId
                                          THEN new(trains[i]) ELSE trains[i]]
                         /\ Done(r, req, 200, <<trainId>>)
                    ELSE /\ trains' = trains
                         /\ Done(r, req, 404, <<>>)
    /\ UNCHANGED <<plans, clock, opt>>

\* a deletion that also strikes the train from the rankings of stored plans
DeleteTrainCascade(r) ==
    /\ Arrives(r)
    /\ \E role \in Roles :
         IF role = "NONE"
         THEN /\ Done(r, [kind |-> "delete", role |-> role], 401, <<>>)
              /\ trains' = trains /\ plans' = plans
         ELSE IF role \notin SupervisorRoles
         THEN /\ Done(r, [kind |-> "delete", role |-> role], 403, <<>>)
              /\ trains' = trains /\ plans' = plans
         ELSE \E trainId \in TrainCodes :
                LET req  == [kind |-> "delete", role |-> role, trainId |-> trainId]
                    gone == {trains[i]._id : i \in {j \in 1..Len(trains) :
                                                      trains[j].trainsetId = trainId}}
                IN  IF gone # {}
                    THEN /\ trains' = SelectSeq(trains, LAMBDA t : t.trainsetId # trainId)
                         /\ plans' = [i \in 1..Len(plans) |->
                                        [plans[i] EXCEPT !.rankedTrains =
                                            SelectSeq(@, LAMBDA e : e.train \notin gone)]]
                         /\ Done(r, req, 200, <<trainId>>)
                    ELSE /\ trains' = trains /\ plans' = plans
                         /\ Done(r, req, 404, <<>>)
    /\ UNCHANGED <<clock, opt>>

\* DELETE /api/trains/:trainId: authenticateToken, requireSupervisor,
\* Train.findOneAndDelete({ trainsetId })
DeleteTrain(r) ==
    /\ Arrives(r)
    /\ \E role \in Roles :
         IF role = "NONE"
         THEN /\ Done(r, [kind |-> "delete", role |-> role], 401, <<>>)
              /\ trains' = trains
         ELSE IF role \notin SupervisorRoles
         THEN /\ Done(r, [kind |-> "delete", role |-> role], 403, <<>>)
              /\ trains' = trains
         ELSE \E trainId \in TrainCodes :
                LET req == [kind |-> "delete", role |-> role, trainId |-> trainId]
                IN  IF \E i \in 1..Len(trains) : trains[i].trainsetId = trainId
                    THEN /\ trains' = SelectSeq(trains, LAMBDA t : t.trainsetId # trainId)
                         /\ Done(r, req, 200, <<trainId>>)
                    ELSE /\ trains' = trains
                         /\ Done(r, req, 404, <<>>)
    /\ UNCHANGED <<plans, clock, opt>>

Next ==
    \/ Tick
    \/ \E r \in 1..MaxReq :
          \/ GenerateStart(r)
          \/ GenerateOptimize(r)
          \/ GenerateSave(r)
          \/ Simulate(r)
          \/ Latest(r)
          \/ History(r)
          \/ Explain(r)

Spec == Init /\ [][Next]_vars

----------------------------------------------------------------------------
(* SpecOpt: the pure functions on every fleet of the bounded set *)

InitOpt ==
    /\ \E cs \in CodeOrders :
         \E ps \in [1..Len(cs) -> 1..Len(Profiles)] :
            trains = Fleet(cs, ps)
    /\ plans = <<>>
    /\ clock = 0
    /\ reqs = NoReqs
    /\ opt = NoOpt

\* fallbackOptimization applied to the formatted fleet
RunOptimizer ==
    /\ opt.kind = "none"
    /\ \E c \in ConstraintsArgs :
         opt' = [ kind   |-> "optimization",
                  input  |-> formatTrainsForAI(trains),
                  now    |-> Epoch + clock,
                  result |-> fallbackOptimization(formatTrainsForAI(trains), c,
                                                  Epoch + clock) ]
    /\ UNCHANGED <<trains, plans, clock, reqs>>

NextOpt == RunOptimizer

SpecOpt == InitOpt /\ [][NextOpt]_vars

----------------------------------------------------------------------------
(* SpecSim: the local simulation on every fleet of the bounded set, stored  *)
(* in the order of the codes                                                *)

\* the trainId handed to fallbackSimulation: a trainset code or an _id
SimTargets == {Code(1), ObjectId(2)}

\* the modifications handed to fallbackSimulation: top-level fields, whole
\* nested records, and nested records that name only some of their fields
SimModifications ==
    { [isAvailableForService |-> FALSE],
      [branding |-> [hasBranding |-> TRUE, brandingPriority |-> 5]],
      [branding |-> [hasBranding |-> TRUE]],
      [fitnessStatus |-> [expiryDate |-> Epoch + 15 * MsPerDay]] }

InitSim ==
    /\ \E n \in 1..MaxFleet :
         \E ps \in [1..n -> 1..Len(Profiles)] :
            trains = Fleet([i \in 1..n |-> i], ps)
    /\ plans = <<>>
    /\ clock = 0
    /\ reqs = NoReqs
    /\ opt = NoOpt

\* fallbackSimulation applied to the formatted fleet, for a target the
\* handler found in it
RunSimulation ==
    /\ opt.kind = "none"
    /\ \E trainId \in SimTargets, modifications \in SimModifications,
          c \in ConstraintsArgs :
         /\ \E i \in 1..Len(trains) :
               trains[i].trainsetId = trainId \/ trains[i]._id = trainId
         /\ opt' = [ kind           |-> "simulation",
                     input          |-> formatTrainsForAI(trains),
                     trainId        |-> trainId,
                     modifications  |-> modifications,
                     now            |-> Epoch + clock,
                     modifiedTrains |-> applyModifications(formatTrainsForAI(trains),
                                                           trainId, modifications),
                     result         |-> fallbackSimulation(formatTrainsForAI(trains),
                                                           trainId, modifications, c,
                                                           Epoch + clock) ]
    /\ UNCHANGED <<trains, plans, clock, reqs>>

NextSim == RunSimulation

SpecSim == InitSim /\ [][NextSim]_vars

----------------------------------------------------------------------------
(* SpecRead: the read handlers and the deletion of trains, over the plan   *)
(* stores that Generate calls leave behind                                 *)

\* the Train collections SpecRead starts from; the second lets a plan rank
\* more trains than GET /latest returns as topTrains
ReadFleets ==
    { Fleet(<<1, 2, 3>>, <<1, 2, 3>>),
      Fleet(<<1, 2, 3, 4, 5, 6>>, <<1, 2, 3, 1, 2, 3>>) }

\* how the external optimizer answered the Generate calls that stored plans
StoredOutcomes == {"body", "refused"}

\* the store after the Generate calls of a SUPERVISOR for the dates ds, in
\* this order, each answered 201: what GenerateSave appended
StoreAfter(ts, ds, outcome) ==
    [i \in 1..Len(ds) |->
        newPlan(i, ds[i],
                callAIOptimizer(outcome, formatTrainsForAI(ts), "{}", Epoch),
                "SUPERVISOR", Epoch)]

InitRead ==
    /\ trains \in ReadFleets
    /\ \E ds \in SeqsNoDup(PlanDates, Cardinality(PlanDates)),
          outcome \in StoredOutcomes :
          /\ plans = StoreAfter(trains, ds, outcome)
          /\ \A i \in 1..Len(plans) : validPlan(plans[i])
    /\ clock = 0
    /\ reqs = NoReqs
    /\ opt = NoOpt

NextRead ==
    \E r \in 1..MaxReq :
        \/ DeleteTrain(r)
        \/ Latest(r)
        \/ History(r)
        \/ Explain(r)

SpecRead == InitRead /\ [][NextRead]_vars

----------------------------------------------------------------------------
(* SpecStore: every operation on the trains and the plans, from a store    *)
(* that holds the plan of one Generate call                                 *)

\* the Train collection SpecStore starts from
StoreFleet == Fleet(<<1, 2>>, <<1, 8>>)

InitStore ==
    /\ trains = StoreFleet
    /\ plans = StoreAfter(trains, <<Epoch + MsPerDay>>, "refused")
    /\ \A i \in 1..Len(plans) : validPlan(plans[i])
    /\ clock = 0
    /\ reqs = NoReqs
    /\ opt = NoOpt

NextStore ==
    \/ Next
    \/ \E r \in 1..MaxReq :
          \/ AddTrain(r)
          \/ UpdateTrain(r)
          \/ DeleteTrain(r)

SpecStore == InitStore /\ [][NextStore]_vars

----------------------------------------------------------------------------
(* Claims about the local optimizer (SpecOpt) *)

\* the input train a ranked entry refers to
TrainOf(ts, id) == CHOOSE t \in Range(ts) : t._id = id

\* hardEligible of the constraint evaluator: the certificate is flagged
\* valid and expires strictly after now, the train is OPERATIONAL and
\* available for service
HardEligible(t, now) ==
    /\ IsValid(t)
    /\ t.fitnessStatus.expiryDate > now
    /\ t.maintenanceStatus = "OPERATIONAL"
    /\ t.isAvailableForService = TRUE

\* C1 (as claimed): every train ranked by the local optimizer is
\* hardEligible, so a train whose certificate expired yesterday is never
\* ranked whatever its valid flag says.  The filter of fallbackOptimization
\* does not read the expiry date.
C1_RankedAreHardEligible ==
    opt.kind = "optimization" =>
        \A i \in 1..Len(opt.result.rankedTrains) :
            HardEligible(TrainOf(opt.input, opt.result.rankedTrains[i].train), opt.now)

\* C9: the ranking carries ranks 1..n in list order, at most one entry per
\* train, and n is at most the number of input trains.
C9_RankTotality ==
    opt.kind = "optimization" =>
        LET r == opt.result.rankedTrains
        IN  /\ \A i \in 1..Len(r) : r[i].rank = i
            /\ \A i, j \in 1..Len(r) : r[i].train = r[j].train => i = j
            /\ Len(r) <= Len(opt.input)

\* C9 witness: a ranking of at least two trains that leaves out an input train
C9_Witness ==
    /\ opt.kind = "optimization"
    /\ Len(opt.result.rankedTrains) >= 2
    /\ Len(opt.result.rankedTrains) < Len(opt.input)

\* C10 (as claimed): the ranking is the total order (score DESC, trainCode
\* ASC): of two ranked entries the one with the higher score has the lower
\* rank number, and of two with equal score the one with the smaller
\* trainset code has the lower rank number.  The score is the rounded score
\* the sort compares.
C10_ScoreThenCodeOrder ==
    opt.kind = "optimization" =>
        LET r == opt.result.rankedTrains
            T(i) == TrainOf(opt.input, r[i].train)
            S(i) == scoreTrain(T(i), opt.input).score
        IN  \A i, j \in 1..Len(r) :
                (\/ S(i) > S(j)
                 \/ S(i) = S(j) /\ T(i).trainsetId[2] < T(j).trainsetId[2])
                => r[i].rank < r[j].rank

\* the enumeration orders of n trains
Orders(n) == {p \in SeqsNoDup(1..n, n) : Len(p) = n}

\* the same trains in another enumeration order
Permuted(ts, p) == [i \in 1..Len(ts) |-> ts[p[i]]]

\* C11 (as claimed): the ranking does not depend on the order in which the
\* trains are enumerated: the local optimizer run on any reordering of the
\* same trains, with the same constraints and the same now, returns the
\* same rankedTrains sequence.  The sort compares scores only and is
\* stable, so trains of equal score keep the order of the input.
C11_OrderIndependent ==
    opt.kind = "optimization" =>
        \A p \in Orders(Len(opt.input)) :
            fallbackOptimization(Permuted(opt.input, p),
                                 opt.result.modelInfo.parameters,
                                 opt.now).rankedTrains
                = opt.result.rankedTrains

\* clamp(x, lo, hi)
Clamp(x, lo, hi) == IF x < lo THEN lo ELSE IF x > hi THEN hi ELSE x

\* C12: every ranked entry's confidenceScore is the rounded score of its
\* train clamped to 60..100, so it lies in 60..100, and the confidenceScore
\* does not increase as the rank increases.
C12_ConfidenceBand ==
    opt.kind = "optimization" =>
        LET r == opt.result.rankedTrains
            T(i) == TrainOf(opt.input, r[i].train)
        IN  /\ \A i \in 1..Len(r) :
                  /\ r[i].confidenceScore =
                        Clamp(Round(ScoreNum(T(i), opt.input), ScoreDen(opt.input)),
                              60, 100)
                  /\ r[i].confidenceScore >= 60
                  /\ r[i].confidenceScore <= 100
            /\ \A i, j \in 1..Len(r) :
                  r[i].rank < r[j].rank => r[i].confidenceScore >= r[j].confidenceScore

\* C12 witness: a ranking whose first and last entries differ in
\* confidenceScore, over trains that are not stored in score order
C12_Witness ==
    /\ opt.kind = "optimization"
    /\ LET r == opt.result.rankedTrains
       IN  /\ Len(r) >= 2
           /\ r[1].confidenceScore > r[Len(r)].confidenceScore
           /\ r[1].train # opt.input[1]._id

\* the position at which the alert generator emitted alert a for the
\* trains ts: trains in input order, within a train fitness, maintenance,
\* availability
EmittedAt(a, ts, now) ==
    CHOOSE k \in 1..Len(pushAlerts(ts, now)) : pushAlerts(ts, now)[k] = a

\* C13: the alerts are the emitted alerts ordered by severity descending,
\* and two alerts of equal severity stand in the order in which they were
\* emitted.
C13_AlertsBySeverityStable ==
    opt.kind = "optimization" =>
        LET out == opt.result.alerts
        IN  /\ Len(out) = Len(pushAlerts(opt.input, opt.now))
            /\ \A i, j \in 1..Len(out) :
                  i < j =>
                     /\ out[i].severity >= out[j].severity
                     /\ out[i].severity = out[j].severity =>
                           EmittedAt(out[i], opt.input, opt.now)
                              < EmittedAt(out[j], opt.input, opt.now)

\* C13 witness: two alerts of equal severity for different trains follow an
\* alert of higher severity that was emitted after the first of them
C13_Witness ==
    /\ opt.kind = "optimization"
    /\ LET out == opt.result.alerts
       IN  \E h, i, j \in 1..Len(out) :
              /\ h < i /\ i < j
              /\ out[h].severity > out[i].severity
              /\ out[i].severity = out[j].severity
              /\ out[i].trainId # out[j].trainId
              /\ EmittedAt(out[i], opt.input, opt.now)
                    < EmittedAt(out[h], opt.input, opt.now)

\* the fitness alerts among the alerts as for the train with code id
FitnessAlertsFor(as, id) ==
    SelectSeq(as, LAMBDA a :
        /\ a.trainId = id
        /\ a.message[2] \in {"fitness certificate expires in days",
                             "fitness certificate has expired"})

\* C20: for every input train, ranked or not, with d the whole days from
\* now to its fitness expiry (rounded down): no fitness alert when d > 7,
\* and otherwise exactly one: CRITICAL severity 5 "has expired" when d < 0,
\* CRITICAL severity 5 "expires in d days" when 0 <= d <= 3, WARNING
\* severity 3 "expires in d days" when 4 <= d <= 7.
C20_FitnessAlertBands ==
    opt.kind = "optimization" =>
        \A k \in 1..Len(opt.input) :
            LET t  == opt.input[k]
                d  == (t.fitnessStatus.expiryDate - opt.now) \div MsPerDay
                fa == FitnessAlertsFor(opt.result.alerts, t.trainsetId)
            IN  /\ d > 7 => fa = <<>>
                /\ d <= 7 => Len(fa) = 1
                /\ d < 0 =>
                      /\ fa[1].type = "CRITICAL" /\ fa[1].severity = 5
                      /\ fa[1].message[2] = "fitness certificate has expired"
                /\ (0 <= d /\ d <= 3) =>
                      /\ fa[1].type = "CRITICAL" /\ fa[1].severity = 5
                      /\ fa[1].message[2] = "fitness certificate expires in days"
                      /\ fa[1].message[3] = d
                /\ (4 <= d /\ d <= 7) =>
                      /\ fa[1].type = "WARNING" /\ fa[1].severity = 3
                      /\ fa[1].message[2] = "fitness certificate expires in days"
                      /\ fa[1].message[3] = d

\* C20 witness: alerts for a ranked train whose certificate has expired,
\* for an unranked train 3 days from expiry and for an unranked train 7
\* days from expiry
C20_Witness ==
    /\ opt.kind = "optimization"
    /\ Len(opt.result.rankedTrains) = 1
    /\ \E i, j, k \in 1..Len(opt.result.alerts) :
          /\ opt.result.alerts[i].message[2] = "fitness certificate has expired"
          /\ opt.result.alerts[i].trainId
                = TrainOf(opt.input, opt.result.rankedTrains[1].train).trainsetId
          /\ opt.result.alerts[j].message[3] = 3 /\ opt.result.alerts[j].severity = 5
          /\ opt.result.alerts[k].message[3] = 7 /\ opt.result.alerts[k].severity = 3

\* a train is due for maintenance: its status says so, or the date of its
\* next maintenance has come
MaintenanceDue(t, now) ==
    \/ t.maintenanceStatus = "MAINTENANCE_DUE"
    \/ ("nextMaintenanceDue" \in DOMAIN t /\ t.nextMaintenanceDue <= now)

\* the alerts among as that name the train with code id and carry this text
AlertsFor(as, id, text) ==
    SelectSeq(as, LAMBDA a : a.trainId = id /\ a.message[2] = text)

\* C21 (as claimed): the alerts of the local optimizer hold exactly one
\* WARNING of severity 4 for every input train that is due for maintenance,
\* and exactly one INFO of severity 2 for every input train that is not
\* available for service.  The maintenance alert is raised on the field
\* maintenanceDue, which no stored train carries and formatTrainsForAI
\* defaults to false, so a MAINTENANCE_DUE train gets no such alert.
C21_MaintenanceAndAvailabilityAlerts ==
    opt.kind = "optimization" =>
        \A k \in 1..Len(opt.input) :
            LET t == opt.input[k]
                m == AlertsFor(opt.result.alerts, t.trainsetId, "maintenance is due")
                a == AlertsFor(opt.result.alerts, t.trainsetId,
                               "is not available for service")
            IN  /\ MaintenanceDue(t, opt.now) =>
                      /\ Len(m) = 1
                      /\ m[1].type = "WARNING" /\ m[1].severity = 4
                /\ t.isAvailableForService = FALSE =>
                      /\ Len(a) = 1
                      /\ a[1].type = "INFO" /\ a[1].severity = 2

\* C25 (as claimed): on an input without a hard-eligible train, the empty
\* input included, the local optimizer returns an empty ranking,
\* totalTrainsEvaluated = |input|, constraintsSatisfied = 0 and the number 0
\* as averageConfidence.  The average is the sum of the confidences divided
\* by the length of the ranking, 0 / 0 for an empty ranking.
C25_NoCandidateWellDefined ==
    ( /\ opt.kind = "optimization"
      /\ \A k \in 1..Len(opt.input) : ~HardEligible(opt.input[k], opt.now) )
    => /\ opt.result.rankedTrains = <<>>
       /\ opt.result.metrics.totalTrainsEvaluated = Len(opt.input)
       /\ opt.result.metrics.constraintsSatisfied = 0
       /\ opt.result.metrics.averageConfidence # NaN
       /\ opt.result.metrics.averageConfidence[1] = 0

\* the entry of the train with this _id in a ranking that ranks it
EntryOf(rs, id) == CHOOSE e \in Range(rs) : e.train = id

\* C26 (as claimed): the mean mileage the scores are measured against is
\* that of the hard-eligible trains alone, so removing from the input the
\* trains that are not hard-eligible leaves every hard-eligible train its
\* (clamped, rounded) score and its place among the others.  The mean is
\* taken over all the trains handed to the optimizer, ranked or not.
C26_MeanOverCandidatePool ==
    opt.kind = "optimization" =>
        LET pool  == SelectSeq(opt.input, LAMBDA t : HardEligible(t, opt.now))
            alone == fallbackOptimization(pool, "{}", opt.now).rankedTrains
            all   == opt.result.rankedTrains
        IN  /\ \A i \in 1..Len(alone) :
                  EntryOf(all, alone[i].train).confidenceScore = alone[i].confidenceScore
            /\ \A i, j \in 1..Len(alone) :
                  i < j => EntryOf(all, alone[i].train).rank
                              < EntryOf(all, alone[j].train).rank

\* C29 (as claimed): the constraints record of every ranked entry tells the
\* state of its own train: cleaningStatus is the train's cleaning status,
\* maintenanceReady is (status OPERATIONAL and not due for maintenance),
\* and brandingPriority and mileageBalance are present, the first with the
\* train's branding priority.  The record is the same literal for every
\* entry: fitnessValid true, maintenanceReady true, cleaningStatus 'CLEAN'.
C29_ConstraintAttribution ==
    opt.kind = "optimization" =>
        \A i \in 1..Len(opt.result.rankedTrains) :
            LET e == opt.result.rankedTrains[i]
                t == TrainOf(opt.input, e.train)
            IN  /\ e.constraints.cleaningStatus = t.cleaningStatus
                /\ e.constraints.maintenanceReady
                      = (t.maintenanceStatus = "OPERATIONAL" /\ ~MaintenanceDue(t, opt.now))
                /\ "brandingPriority" \in DOMAIN e.constraints
                /\ "mileageBalance" \in DOMAIN e.constraints
                /\ e.constraints.brandingPriority = t.branding.brandingPriority

----------------------------------------------------------------------------
(* Claims about Generate and Simulate (Spec) *)

\* request r is a Generate call of an authorised caller
Authorised(r) ==
    /\ reqs[r].kind = "generate"
    /\ reqs[r].role \in SupervisorRoles

\* request r is a Generate call that got a result from callAIOptimizer and
\* has answered after plan.save()
Saved(r) ==
    /\ Authorised(r)
    /\ reqs[r].pc = "done"
    /\ "aiResult" \in DOMAIN reqs[r]

\* the document Generate call r builds passes the schema's validation
Storable(r) ==
    validPlan(newPlan(0, reqs[r].planDate, reqs[r].aiResult, reqs[r].role, Epoch))

\* the stored plan with this id
PlanOf(id) == CHOOSE p \in Range(plans) : p.id = id

\* C2: once a Generate for plan date d has answered 201, a Generate for d
\* with forceRegenerate false that arrives afterwards answers 409 with the
\* id of that first plan, in the step it arrives, and leaves the stored
\* plans as they were.
C2_SecondGenerateConflicts ==
    [][ \A r, q \in 1..MaxReq :
          ( /\ Saved(q) /\ reqs[q].status = 201
            /\ reqs[r].pc = "idle"
            /\ reqs'[r].kind = "generate"
            /\ reqs'[r].role \in SupervisorRoles
            /\ reqs'[r].planDate = reqs[q].planDate
            /\ ~reqs'[r].forceRegenerate )
          => /\ reqs'[r].pc = "done"
             /\ reqs'[r].status = 409
             /\ reqs'[r].body = reqs[q].body
             /\ plans' = plans ]_vars

\* C2 witness: a Generate answered 201 for a date and another, not forced,
\* answered 409 for that date with the first plan's id
C2_Witness ==
    \E r, q \in 1..MaxReq :
        /\ Saved(q) /\ reqs[q].status = 201
        /\ Authorised(r) /\ reqs[r].pc = "done" /\ reqs[r].status = 409
        /\ ~reqs[r].forceRegenerate
        /\ reqs[r].planDate = reqs[q].planDate
        /\ reqs[r].body = reqs[q].body
        /\ PlanOf(reqs[q].body[1]).planDate = reqs[q].planDate

\* C3: whatever the interleaving of the Generate calls, the store never
\* holds two FINALIZED plans for one plan date.
C3_OneFinalizedPlanPerDate ==
    \A i, j \in 1..Len(plans) :
        ( /\ plans[i].planDate = plans[j].planDate
          /\ plans[i].status = "FINALIZED"
          /\ plans[j].status = "FINALIZED" )
        => i = j

\* two Generate calls for one date, neither forced, both past the existence
\* check before either saved, both with a storable plan, both answered
Raced(r, q) ==
    /\ r # q
    /\ Saved(r) /\ Saved(q)
    /\ reqs[r].planDate = reqs[q].planDate
    /\ ~reqs[r].forceRegenerate /\ ~reqs[q].forceRegenerate
    /\ reqs[r].existingPlan = <<>> /\ reqs[q].existingPlan = <<>>
    /\ Storable(r) /\ Storable(q)

\* C3 witness: two Generate calls raced for one date and the store holds one
\* plan for it
C3_Witness ==
    \E r, q \in 1..MaxReq :
        /\ Raced(r, q)
        /\ Len(finalizedOn(plans, reqs[r].planDate)) = 1

\* C4 (as claimed): of two Generate calls that race for one date on a fleet
\* the optimizer can rank, one answers 201 and the other answers 409 with
\* the winner's plan id.  The loser's save is rejected by the unique index
\* and the handler answers 500.
C4_RaceLoserGets409 ==
    \A r, q \in 1..MaxReq :
        (Raced(r, q) /\ reqs[r].status = 201)
        => /\ reqs[q].status = 409
           /\ reqs[q].body = reqs[r].body

\* C5 (as claimed): a forced Generate for a date whose FINALIZED plan the
\* existence check found answers 201 and inserts a new plan beside the old
\* one, and History lists both plans for the date, the new one first.  The
\* unique index on planDate rejects the second plan and the handler
\* answers 500.
C5_ForceRegenerateAppends ==
    \A r \in 1..MaxReq :
        ( /\ Saved(r) /\ Storable(r)
          /\ reqs[r].forceRegenerate
          /\ reqs[r].existingPlan # <<>> )
        => /\ reqs[r].status = 201
           /\ LET h   == getHistory(plans, DefaultLimit)
                  old == reqs[r].existingPlan[1]
                  new == reqs[r].body[1]
              IN  \E i, j \in 1..Len(h) :
                      /\ i < j
                      /\ h[i].id = new /\ h[j].id = old
                      /\ h[i].planDate = h[j].planDate

\* C6: a Simulate request, whatever it answers, leaves the stored plans and
\* the stored trains as they were, and Latest and History return after it
\* what they returned before it.
C6_SimulateSavesNothing ==
    [][ \A r \in 1..MaxReq :
          (reqs[r].pc = "idle" /\ reqs'[r].kind = "simulate")
          => /\ plans' = plans
             /\ trains' = trains
             /\ getLatest(plans') = getLatest(plans)
             /\ getHistory(plans', DefaultLimit) = getHistory(plans, DefaultLimit) ]_vars

\* C6 witness: with a plan stored, a Simulate was answered 200 by the local
\* fallback
C6_Witness ==
    /\ plans # <<>>
    /\ \E r \in 1..MaxReq :
          /\ reqs[r].kind = "simulate" /\ reqs[r].pc = "done"
          /\ reqs[r].status = 200 /\ reqs[r].external = "refused"
          /\ reqs[r].body[1].status = "SIMULATION"

\* the local optimizer's output on the trains and constraints of Generate
\* call r
LocalOutput(r) ==
    fallbackOptimization(formatTrainsForAI(reqs[r].loaded), reqs[r].constraints,
                         Epoch + clock)

\* the plan Generate call r stored carries the local optimizer's ranking,
\* alerts and metrics
StoredLocalOutput(r) ==
    LET p == PlanOf(reqs[r].body[1])
    IN  /\ p.rankedTrains = LocalOutput(r).rankedTrains
        /\ p.alerts = LocalOutput(r).alerts
        /\ p.optimizationMetrics = LocalOutput(r).metrics

\* C7 (as claimed): a Generate whose call to the external optimizer is
\* refused answers 201, and the plan it stored names the algorithm
\* "Rule-Based Weighted Scoring" and carries the local optimizer's ranking,
\* alerts and metrics for the same trains and constraints.
C7_FallbackTransparency ==
    \A r \in 1..MaxReq :
        ( /\ Authorised(r) /\ reqs[r].pc = "done"
          /\ "external" \in DOMAIN reqs[r]
          /\ reqs[r].external = "refused" )
        => /\ reqs[r].status = 201
           /\ PlanOf(reqs[r].body[1]).aiModelInfo.algorithm
                 = "Rule-Based Weighted Scoring"
           /\ StoredLocalOutput(r)

\* C8 (as claimed): whichever way the external optimizer call fails
\* (refused, timed out, a body that is no optimizer output, no body), the
\* Generate call answers 201 and the plan it stored carries the local
\* optimizer's output; no failure of the optimizer shows as an error answer.
C8_EveryFailureFallsBack ==
    \A r \in 1..MaxReq :
        ( /\ Authorised(r) /\ reqs[r].pc = "done"
          /\ "external" \in DOMAIN reqs[r]
          /\ reqs[r].external \in {"refused", "timeout", "malformed", "empty"} )
        => /\ reqs[r].status = 201
           /\ StoredLocalOutput(r)

\* C14: a request without a valid credential is answered 401 on every
\* endpoint, and a Generate or Simulate request of an authenticated caller
\* who is neither SUPERVISOR nor ADMIN is answered 403; neither reaches an
\* optimizer, and every stored plan is the plan a Generate call of a
\* SUPERVISOR or ADMIN saved.  Latest, History and Explain give
\* every authenticated caller the handler's own answer, whatever the role.
C14_Authorization ==
    /\ \A r \in 1..MaxReq :
          reqs[r].pc = "done" =>
             /\ reqs[r].role = "NONE" =>
                   /\ reqs[r].status = 401
                   /\ "external" \notin DOMAIN reqs[r]
             /\ ( /\ reqs[r].kind \in {"generate", "simulate"}
                  /\ reqs[r].role \notin {"NONE", "SUPERVISOR", "ADMIN"} ) =>
                   /\ reqs[r].status = 403
                   /\ "external" \notin DOMAIN reqs[r]
             /\ ( /\ reqs[r].kind \in {"latest", "history", "explain"}
                  /\ reqs[r].role # "NONE" ) =>
                   /\ reqs[r].status \in {200, 404}
                   /\ reqs[r].kind = "history" => reqs[r].status = 200
    /\ \A i \in 1..Len(plans) :
          \E r \in 1..MaxReq :
             /\ reqs[r].kind = "generate" /\ reqs[r].pc = "done"
             /\ reqs[r].role \in {"SUPERVISOR", "ADMIN"}
             /\ "saved" \in DOMAIN reqs[r]
             /\ reqs[r].saved = <<plans[i].id>>

\* C14 witness: a READER was refused a Generate or Simulate with 403 and
\* was served History with 200
C14_Witness ==
    \E r, q \in 1..MaxReq :
        /\ reqs[r].pc = "done" /\ reqs[r].kind \in {"generate", "simulate"}
        /\ reqs[r].role = "READER" /\ reqs[r].status = 403
        /\ reqs[q].pc = "done" /\ reqs[q].kind = "history"
        /\ reqs[q].role = "READER" /\ reqs[q].status = 200

\* C15: on an empty Train collection a Generate call that the existence
\* check lets pass answers 400, reaches no optimizer and stores no plan.
C15_EmptyFleetRejected ==
    \A r \in 1..MaxReq :
        ( /\ Authorised(r) /\ reqs[r].pc = "done"
          /\ reqs[r].existingPlan = <<>>
          /\ trains = <<>> )
        => /\ reqs[r].status = 400
           /\ "external" \notin DOMAIN reqs[r]
           /\ "aiResult" \notin DOMAIN reqs[r]
           /\ plans = <<>>

\* C15 witness: a Generate call on an empty Train collection was answered
\* 400
C15_Witness ==
    /\ trains = <<>>
    /\ \E r \in 1..MaxReq :
          /\ Authorised(r) /\ reqs[r].pc = "done"
          /\ reqs[r].existingPlan = <<>>
          /\ reqs[r].status = 400

\* the loaded train a Simulate request names, by trainset code or by _id
TargetOf(r) ==
    CHOOSE t \in Range(reqs[r].loaded) :
        t.trainsetId = reqs[r].trainId \/ t._id = reqs[r].trainId

\* C16 (as claimed): in the local simulation, whichever way the request
\* names the target train, newRank is the rank of the target in the
\* simulated ranking when it is ranked and null when it is not, rankChange
\* is "Moved to rank N" exactly when newRank is N, and affectedTrains is the
\* length of the ranking.  The lookup of the target in the ranking compares
\* the entries' train ids with the request's trainId, so a target named by
\* its trainset code is never found.
C16_SimulationImpact ==
    \A r \in 1..MaxReq :
        ( /\ reqs[r].kind = "simulate" /\ reqs[r].pc = "done"
          /\ reqs[r].status = 200
          /\ reqs[r].external = "refused" )
        => LET b      == reqs[r].body[1]
               ranked == {i \in 1..Len(b.rankedTrains) :
                             b.rankedTrains[i].train = TargetOf(r)._id}
               impact == b.impactAnalysis
           IN  /\ \A i \in ranked : impact.newRank = <<b.rankedTrains[i].rank>>
               /\ ranked = {} => impact.newRank = <<>>
               /\ impact.newRank # <<>> =>
                     impact.rankChange = <<"Moved to rank", impact.newRank[1]>>
               /\ impact.newRank = <<>> => impact.rankChange[1] # "Moved to rank"
               /\ impact.affectedTrains = Len(b.rankedTrains)

----------------------------------------------------------------------------
(* Claims about the read handlers (SpecRead) *)

\* request r is, in this step, an Explain call of an authenticated caller
\* for a stored plan
ExplainsStored(r) ==
    /\ reqs[r].pc = "idle"
    /\ reqs'[r].kind = "explain"
    /\ reqs'[r].role # "NONE"
    /\ findById(plans, reqs'[r].planId) # <<>>

\* the train this ranked entry refers to is no longer stored
Deleted(entry) == \A i \in 1..Len(trains) : trains[i]._id # entry.train

\* the ranked entries of the stored plan are explained one by one with
\* rank, reasoning and confidenceScore as stored
ExplainedAsStored(r) ==
    LET p == findById(plans, reqs'[r].planId)[1]
        e == reqs'[r].body[1].explanations
    IN  /\ Len(e) = Len(p.rankedTrains)
        /\ \A i \in 1..Len(e) :
              /\ e[i].rank = p.rankedTrains[i].rank
              /\ e[i].reasoning = p.rankedTrains[i].reasoning
              /\ e[i].confidenceScore = p.rankedTrains[i].confidenceScore

\* C17 (as claimed): Explain on a stored plan answers 200 even when ranked
\* trains have been deleted since; rank, reasoning and confidenceScore are
\* as stored, and detailedAnalysis is null for an entry whose train is
\* deleted.
C17_ExplainDeletedNull ==
    [][ \A r \in 1..MaxReq :
          ExplainsStored(r) =>
             /\ reqs'[r].status = 200
             /\ ExplainedAsStored(r)
             /\ LET p == findById(plans, reqs'[r].planId)[1]
                    e == reqs'[r].body[1].explanations
                IN  \A i \in 1..Len(e) :
                       Deleted(p.rankedTrains[i]) => e[i].detailedAnalysis = <<>> ]_vars

\* the detailedAnalysis of an entry without a train: fitnessStatus
\* 'Invalid', every other field undefined
NoTrainAnalysis ==
    [ fitnessStatus      |-> "Invalid",
      maintenanceUrgency |-> <<>>,
      mileageBalance     |-> <<>>,
      brandingPriority   |-> <<>>,
      locationAdvantage  |-> <<>> ]

\* C17 (amended): Explain on a stored plan answers 200 even when ranked
\* trains have been deleted since; rank, reasoning and confidenceScore are
\* as stored; for an entry whose train is deleted, train is null and
\* detailedAnalysis is an object with fitnessStatus 'Invalid' and no other
\* field defined.
C17_ExplainDeletedInvalid ==
    [][ \A r \in 1..MaxReq :
          ExplainsStored(r) =>
             /\ reqs'[r].status = 200
             /\ ExplainedAsStored(r)
             /\ LET p == findById(plans, reqs'[r].planId)[1]
                    e == reqs'[r].body[1].explanations
                IN  \A i \in 1..Len(e) :
                       Deleted(p.rankedTrains[i]) =>
                          /\ e[i].train = <<>>
                          /\ e[i].detailedAnalysis = <<NoTrainAnalysis>> ]_vars

\* C17 witness: an Explain answered 200 for a plan that ranks a train
\* deleted before, with another ranked train still stored
C17_Witness ==
    \E r, q \in 1..MaxReq :
        /\ reqs[q].kind = "delete" /\ reqs[q].pc = "done" /\ reqs[q].status = 200
        /\ reqs[r].kind = "explain" /\ reqs[r].pc = "done" /\ reqs[r].status = 200
        /\ \E i, j \in 1..Len(reqs[r].body[1].explanations) :
              /\ reqs[r].body[1].explanations[i].train = <<>>
              /\ reqs[r].body[1].explanations[j].train # <<>>

\* request r is, in this step, a call of this read handler by an
\* authenticated caller
ReadsNow(r, kind) ==
    /\ reqs[r].pc = "idle"
    /\ reqs'[r].kind = kind
    /\ reqs'[r].role # "NONE"

\* the positions of the FINALIZED plans in the store
Finalized == {i \in 1..Len(plans) : plans[i].status = "FINALIZED"}

\* top is the at most n entries of lowest rank of all, in rank order
LowestRanked(top, all, n) ==
    /\ Len(top) = Min(n, Len(all))
    /\ \A k, l \in 1..Len(top) : k < l => top[k].rank <= top[l].rank /\ top[k] # top[l]
    /\ \A k \in 1..Len(top) : \E m \in 1..Len(all) : all[m] = top[k]
    /\ \A m \in 1..Len(all) :
          (\A k \in 1..Len(top) : top[k] # all[m])
          => \A k \in 1..Len(top) : top[k].rank <= all[m].rank

\* C18: Latest answers 404 exactly when no FINALIZED plan is stored, and
\* otherwise answers with the FINALIZED plan of greatest planDate (of
\* greatest generatedAt among equal planDates) and, as topTrains, its at
\* most 5 entries of lowest rank in rank order.
C18_LatestNewestPlan ==
    [][ \A r \in 1..MaxReq :
          ReadsNow(r, "latest") =>
             /\ reqs'[r].status = 404 <=> Finalized = {}
             /\ Finalized # {} =>
                   /\ reqs'[r].status = 200
                   /\ \E i \in Finalized :
                         /\ plans[i].id = reqs'[r].body[1].plan.id
                         /\ \A j \in Finalized :
                               \/ plans[j].planDate < plans[i].planDate
                               \/ /\ plans[j].planDate = plans[i].planDate
                                  /\ plans[j].generatedAt <= plans[i].generatedAt
                   /\ LowestRanked(reqs'[r].body[1].topTrains,
                                   reqs'[r].body[1].plan.rankedTrains, 5) ]_vars

\* C18 witness: with two plans stored, the later-dated one stored first,
\* Latest answered with that plan and with 5 of its more than 5 ranked
\* entries
C18_Witness ==
    /\ Len(plans) = 2
    /\ plans[1].planDate > plans[2].planDate
    /\ \E r \in 1..MaxReq :
          /\ reqs[r].kind = "latest" /\ reqs[r].pc = "done" /\ reqs[r].status = 200
          /\ reqs[r].body[1].plan.id = plans[1].id
          /\ Len(reqs[r].body[1].topTrains) = 5
          /\ Len(reqs[r].body[1].plan.rankedTrains) > 5

\* the ids of the plans at positions from..to of the FINALIZED plans taken
\* newest first, as far as such positions exist
NewestFirstSlice(from, to) ==
    LET order == finalizedNewestFirst(plans)
    IN  [k \in 1..(Min(to, Len(order)) - Min(from - 1, Len(order))) |->
            order[from - 1 + k].id]

\* C19 (as claimed): History answers with the FINALIZED plans at positions
\* (page-1)*limit+1 .. page*limit of the newest-first order, limit
\* defaulting to 10 and page to 1, and pagination.total is the number of
\* FINALIZED plans stored.  The handler does not use page in the query and
\* counts the plans it returns.
C19_HistoryPages ==
    [][ \A r \in 1..MaxReq :
          ReadsNow(r, "history") =>
             LET limit == IF reqs'[r].limit = <<>> THEN 10 ELSE reqs'[r].limit[1]
                 page  == IF reqs'[r].page = <<>> THEN 1 ELSE reqs'[r].page[1]
                 b     == reqs'[r].body[1]
             IN  /\ reqs'[r].status = 200
                 /\ Len(b.plans) <= limit
                 /\ \A k \in 1..Len(b.plans) : b.plans[k].status = "FINALIZED"
                 /\ [k \in 1..Len(b.plans) |-> b.plans[k].id]
                       = NewestFirstSlice((page - 1) * limit + 1, page * limit)
                 /\ b.pagination.total = Cardinality(Finalized) ]_vars

----------------------------------------------------------------------------
(* Claims about the plans Generate stores (Spec) *)

\* C22 (as claimed): the plan a Generate call stored carries as alerts what
\* generateAlerts returns on all the trains the call loaded, at some time
\* up to now, whether the ranking came from the external optimizer or from
\* the local fallback.  On the external path the handler stores the alerts
\* of the response body, or none when the body has none; generateAlerts is
\* not called.
C22_StoredAlertsFromGenerator ==
    \A r \in 1..MaxReq :
        (Saved(r) /\ reqs[r].status = 201)
        => \E c \in 0..clock :
              PlanOf(reqs[r].body[1]).alerts
                 = generateAlerts(formatTrainsForAI(reqs[r].loaded), Epoch + c)

----------------------------------------------------------------------------
(* Claims about the local simulation (SpecSim) *)

\* the fields of a train that are records
NestedPaths == {"fitnessStatus", "branding"}

\* the train the simulation names is the k-th of its input
IsTarget(k) ==
    \/ opt.input[k].trainsetId = opt.trainId
    \/ opt.input[k]._id = opt.trainId

\* C23 (as claimed): in the modified copy the simulation hands to the
\* optimizer, a nested record of the target train that the modifications
\* name keeps, for every field the modifications do not set, the target's
\* original value, and every other train is the input train.  The spread
\* replaces a nested record as a whole, so the fields the modification
\* leaves out are gone from the copy.
C23_NestedMergeFieldWise ==
    opt.kind = "simulation" =>
        \A k \in 1..Len(opt.input) :
            LET t == opt.input[k]
                m == opt.modifiedTrains[k]
            IN  IF IsTarget(k)
                THEN \A f \in NestedPaths \cap DOMAIN opt.modifications :
                        \A g \in DOMAIN t[f] \ DOMAIN opt.modifications[f] :
                            /\ g \in DOMAIN m[f]
                            /\ m[f][g] = t[f][g]
                ELSE m = t

----------------------------------------------------------------------------
(* Claims about the error answers (Spec) *)

\* a stored train has this trainset code or this _id
Stored(trainId) ==
    \E i \in 1..Len(trains) :
        trains[i].trainsetId = trainId \/ trains[i]._id = trainId

C27_NoPartialPlans ==
    [][ /\ \A r \in 1..MaxReq :
             ( /\ reqs'[r].kind = "generate"
               /\ reqs[r].pc # "done" /\ reqs'[r].pc = "done"
               /\ reqs'[r].status \in {400, 409, 500} )
             => plans' = plans
        /\ plans' # plans =>
              \E r \in 1..MaxReq :
                 /\ reqs'[r].kind = "generate"
                 /\ reqs[r].pc # "done" /\ reqs'[r].pc = "done"
                 /\ reqs'[r].status = 201 ]_vars

----------------------------------------------------------------------------
(* Claims about the stored plans (SpecStore) *)

\* C28: no step of Generate (forced or not), Simulate, Latest, History or
\* Explain and no addition, update or deletion of a train changes a stored
\* plan or removes it: after the step every plan that was stored is stored
\* at the same place with the same fields.
C28_PlansImmutable ==
    [][ /\ Len(plans') >= Len(plans)
        /\ \A i \in 1..Len(plans) : plans'[i] = plans[i] ]_vars

\* C28 witness: the first plan ranks a train that has since been deleted,
\* and a later Generate call has stored a second plan
C28_Witness ==
    /\ Len(plans) = 2
    /\ \E i \in 1..Len(plans[1].rankedTrains) :
          \A k \in 1..Len(trains) : trains[k]._id # plans[1].rankedTrains[i].train
    /\ \E r, q \in 1..MaxReq :
          /\ reqs[r].kind = "delete" /\ reqs[r].pc = "done" /\ reqs[r].status = 200
          /\ reqs[q].kind = "generate" /\ reqs[q].pc = "done" /\ reqs[q].status = 201

----------------------------------------------------------------------------
(* Claims about the plan date (Spec) *)

\* the calendar date (UTC) of a timestamp
DateOf(t) == t \div MsPerDay

\* C30 (as claimed): the key of the plan store is the calendar date.  A
\* Generate call that is not forced and whose plan date, given or defaulted
\* to the time of the call, falls on the date of a stored FINALIZED plan is
\* answered 409 in the step it arrives, and the store never holds two
\* FINALIZED plans whose plan dates fall on one date.  The lookup and the
\* unique index compare the timestamps as they are, so two calls that omit
\* planDate a millisecond apart are two plan dates.
C30_CalendarDateKey ==
    [][ /\ \A r \in 1..MaxReq :
             ( /\ reqs[r].pc = "idle"
               /\ reqs'[r].kind = "generate"
               /\ reqs'[r].role \in {"SUPERVISOR", "ADMIN"}
               /\ ~reqs'[r].forceRegenerate
               /\ \E i \in 1..Len(plans) :
                     /\ plans[i].status = "FINALIZED"
                     /\ DateOf(plans[i].planDate) = DateOf(reqs'[r].planDate) )
             => /\ reqs'[r].pc = "done"
                /\ reqs'[r].status = 409
        /\ \A i, j \in 1..Len(plans') :
             ( /\ plans'[i].status = "FINALIZED" /\ plans'[j].status = "FINALIZED"
               /\ DateOf(plans'[i].planDate) = DateOf(plans'[j].planDate) )
             => i = j ]_vars

====
